---- MODULE Spec2Model ----
(***************************************************************************)
(* A model of the gcoap Observe test client, gcoaptest/observer.py         *)
(* (class GcoapObserver).  The program state is the subscription table     *)
(* _registeredPaths and the notification policy _notificationAction.  The  *)
(* transport (soscoap) calls two handlers from one asyncore loop, each run *)
(* to completion: _postServerResource for a command POST and               *)
(* _responseClient for an inbound message.  Each is one action here.       *)
(* closed says that close() has run: __main__ calls it once, when start()  *)
(* has returned or raised, and no handler runs after it.                   *)
(*                                                                         *)
(* The source is Python 2 (asyncore, range() over len(tokenText) / 2), so  *)
(* "/" on two integers is floor division.                                  *)
(*                                                                         *)
(* call, before, sent and raised record the handler invocation that        *)
(* produced the current state: its input, the program state it started     *)
(* from, the messages it gave to CoapClient.send, and the exception it     *)
(* ended with.  previous names the key that the invocation before that one *)
(* registered, if it did (SpecHistory), or the policy command it was       *)
(* (SpecPolicyHistory).  repeated counts, for a run of identical inbound   *)
(* messages handled one after the other, the messages and the ACKs sent    *)
(* for them (SpecDuplicates).  requested holds, for each resource, the     *)
(* Observe option of the last request sent to its URI path, and the token  *)
(* of that request when it is a registration (SpecRequests).  They are     *)
(* history variables; the program does not read them.                      *)
(*                                                                         *)
(* The test server gcoaptest/tester.py (class GcoapTester) is a separate   *)
(* program with its own state, _delay and _verIgnores, and three handlers, *)
(* _getResource, _postResource and _putResource (SpecTester).  testerCall  *)
(* is its history variable: the last handler invocation, the state before  *)
(* it, how it ended (a handler that raises IgnoreRequestException makes    *)
(* the server send no response), what it slept, and the count set by the   *)
(* last PUT /ver/ignores with the number of GET /ver ignored since.        *)
(***************************************************************************)
EXTENDS Integers, Sequences, FiniteSets, TLC

VARIABLES registeredPaths, notificationAction, closed,
          call, before, sent, raised, previous, repeated, requested,
          delay, verIgnores, testerCall

vars == <<registeredPaths, notificationAction, closed,
          call, before, sent, raised, previous, repeated, requested,
          delay, verIgnores, testerCall>>

\* The variables of the observer and those of the test server.
observerVars == <<registeredPaths, notificationAction, closed,
                  call, before, sent, raised, previous, repeated, requested>>

testerVars == <<delay, verIgnores, testerCall>>

(***************************************************************************)
(* Input domains.                                                          *)
(***************************************************************************)

\* Inbound message IDs are 0 .. MaxMessageId.
MaxMessageId == 1

\* The longest run of identical inbound messages that repeated counts.
MaxDuplicates == 3

\* The largest count a PUT /ver/ignores sets.
MaxIgnores == 2

\* The largest delay, in seconds, a POST /cf/delay sets.
MaxDelay == 1

\* The values drawn for the two random.randint(0, 255) token bytes, as pairs,
\* and for the random.randint(0, 65535) message ID of a request (no handler
\* reads the message ID of a request again).
RandomTokens == { <<5, 166>>, <<166, 5>> }
RandomMessageIds == { 4660 }

\* Command paths POSTed to the command server.
CommandPaths ==
    { "/reg/stats", "/reg/core", "/reg/stats2",
      "/dereg/stats", "/dereg/core", "/dereg/stats2",
      "/notif/con_ignore", "/notif/con_reset", "/notif/non_reset",
      "/ping", "/reg/other" }

\* resource.pathQuery of a command POST: None, or a string, which is a
\* sequence of characters here.  NoQuery stands for None; "" is <<>>.
NoQuery == << "None" >>

TokenTexts ==
    { NoQuery,
      <<>>,
      <<"0", "5", "a", "6">>,
      <<"0", "5">>,
      <<"0">>,
      <<"0", "g">> }

\* Tokens of inbound messages.
InboundTokens == { <<5, 166>>, <<5>> }

MessageTypes == { "CON", "NON", "ACK" }

(***************************************************************************)
(* Messages.                                                               *)
(***************************************************************************)

\* msg.token = None of an empty response.
None == <<>>

\* An inbound message as _responseClient reads it.
InboundMessages ==
    [ messageType : MessageTypes,
      messageId   : 0 .. MaxMessageId,
      token       : InboundTokens,
      observe     : { <<>>, <<7>> } ]

NoMessage ==
    [ messageType |-> "NON", messageId |-> 0, token |-> <<>>, observe |-> <<>> ]

(***************************************************************************)
(* int(text, base=16) on a two-character slice, and the store of the       *)
(* result into a bytearray element.                                        *)
(***************************************************************************)

HexDigits ==
    [ c \in { "0","1","2","3","4","5","6","7","8","9",
              "a","b","c","d","e","f","A","B","C","D","E","F" } |->
        CASE c = "0" -> 0  [] c = "1" -> 1  [] c = "2" -> 2  [] c = "3" -> 3
          [] c = "4" -> 4  [] c = "5" -> 5  [] c = "6" -> 6  [] c = "7" -> 7
          [] c = "8" -> 8  [] c = "9" -> 9
          [] c \in {"a", "A"} -> 10  [] c \in {"b", "B"} -> 11
          [] c \in {"c", "C"} -> 12  [] c \in {"d", "D"} -> 13
          [] c \in {"e", "E"} -> 14  [] c \in {"f", "F"} -> 15 ]

IsHexDigit(c) == c \in DOMAIN HexDigits

\* int(s, base=16) for a slice s of two characters: surrounding blanks are
\* stripped and one sign is allowed; anything else is a ValueError.
Int16(s) ==
    LET a == s[1]
        b == s[2]
    IN  CASE IsHexDigit(a) /\ IsHexDigit(b) ->
               [ok |-> TRUE, value |-> 16 * HexDigits[a] + HexDigits[b]]
          [] a \in {" ", "+"} /\ IsHexDigit(b) ->
               [ok |-> TRUE, value |-> HexDigits[b]]
          [] a = "-" /\ IsHexDigit(b) ->
               [ok |-> TRUE, value |-> 0 - HexDigits[b]]
          [] IsHexDigit(a) /\ b = " " ->
               [ok |-> TRUE, value |-> HexDigits[a]]
          [] OTHER -> [ok |-> FALSE, value |-> 0]

\* msg.token[i] = int(...): a bytearray element must be in range(0, 256).
ByteOk(r) == r.ok /\ r.value >= 0 /\ r.value <= 255

\* msg.tokenLength for an explicit token text.
TextTokenLength(tokenText) == Len(tokenText) \div 2

\* The slice tokenText[2*i : 2*(i+1)], for the 0-based byte index i.
Slice(tokenText, i) == << tokenText[2 * i + 1], tokenText[2 * i + 2] >>

\* DecodeToken with the two hex digits of each byte read in the wrong order.
DecodeTokenSwapped(tokenText) ==
    LET n == TextTokenLength(tokenText)
        parsed == [ i \in 1 .. n |->
                      Int16(<< tokenText[2 * i], tokenText[2 * i - 1] >>) ]
    IN  IF \A i \in 1 .. n : ByteOk(parsed[i])
        THEN [ raised |-> "none", token |-> [ i \in 1 .. n |-> parsed[i].value ] ]
        ELSE [ raised |-> "ValueError", token |-> <<>> ]

\* The loop that fills msg.token from tokenText.
DecodeToken(tokenText) ==
    LET n == TextTokenLength(tokenText)
        parsed == [ i \in 1 .. n |-> Int16(Slice(tokenText, i - 1)) ]
    IN  IF \A i \in 1 .. n : ByteOk(parsed[i])
        THEN [ raised |-> "none", token |-> [ i \in 1 .. n |-> parsed[i].value ] ]
        ELSE [ raised |-> "ValueError", token |-> <<>> ]

(***************************************************************************)
(* _postServerResource: the command path to (observeAction, observePath).  *)
(***************************************************************************)

ObserveAction(path) ==
    CASE path \in { "/reg/stats", "/reg/core", "/reg/stats2" } -> "reg"
      [] path \in { "/dereg/stats", "/dereg/core", "/dereg/stats2" } -> "dereg"
      [] OTHER -> "None"

\* ObservePath that takes the key from any /reg/<key> path.
ObservePathAnyKey(path) ==
    CASE path \in { "/reg/stats", "/dereg/stats" } -> "stats"
      [] path \in { "/reg/core", "/dereg/core" } -> "core"
      [] path \in { "/reg/stats2", "/dereg/stats2" } -> "stats2"
      [] path = "/reg/other" -> "other"
      [] OTHER -> "None"

ObservePath(path) ==
    CASE path \in { "/reg/stats", "/dereg/stats" } -> "stats"
      [] path \in { "/reg/core", "/dereg/core" } -> "core"
      [] path \in { "/reg/stats2", "/dereg/stats2" } -> "stats2"
      [] OTHER -> "None"

\* NewNotificationAction with the values of the two CON policies exchanged.
NewNotificationActionSwapped(path, action) ==
    CASE path = "/notif/con_ignore" -> "reset"
      [] path = "/notif/con_reset" -> "ignore"
      [] path = "/notif/non_reset" -> "reset_non"
      [] OTHER -> action

\* NewNotificationAction that clears the policy on every other command.
NewNotificationActionResets(path, action) ==
    CASE path = "/notif/con_ignore" -> "ignore"
      [] path = "/notif/con_reset" -> "reset"
      [] path = "/notif/non_reset" -> "reset_non"
      [] OTHER -> "None"

\* NewNotificationAction that clears the policy on a register command.
NewNotificationActionRegisterClears(path, action) ==
    CASE path = "/notif/con_ignore" -> "ignore"
      [] path = "/notif/con_reset" -> "reset"
      [] path = "/notif/non_reset" -> "reset_non"
      [] path \in { "/reg/stats", "/reg/core", "/reg/stats2" } -> "None"
      [] OTHER -> action

\* NewNotificationAction that takes /notif/non_reset as a return to the
\* default (the class docstring calls reset_non unsupported).
NewNotificationActionNonResetClears(path, action) ==
    CASE path = "/notif/con_ignore" -> "ignore"
      [] path = "/notif/con_reset" -> "reset"
      [] path = "/notif/non_reset" -> "None"
      [] OTHER -> action

NewNotificationAction(path, action) ==
    CASE path = "/notif/con_ignore" -> "ignore"
      [] path = "/notif/con_reset" -> "reset"
      [] path = "/notif/non_reset" -> "reset_non"
      [] OTHER -> action

\* The truth value of a string or None: None and "" are false.
Truthy(text) == text # NoQuery /\ text # <<>>

\* QueryTokenText that never passes the query string on.
QueryTokenTextIgnored(path, pathQuery) == NoQuery

\* The tokenText argument _postServerResource passes to _query; NoQuery is
\* the default, tokenText=None.
QueryTokenText(path, pathQuery) ==
    IF ObserveAction(path) = "reg" /\ Truthy(pathQuery) THEN pathQuery ELSE NoQuery

(***************************************************************************)
(* _query.                                                                 *)
(***************************************************************************)

\* UriPath with the stats2 branch copied from stats and not edited.
UriPathStats2AsStats(observePath) ==
    CASE observePath = "core" -> << ".well-known", "core" >>
      [] observePath = "stats" -> << "cli", "stats" >>
      [] observePath = "stats2" -> << "cli", "stats" >>
      [] OTHER -> <<>>

UriPath(observePath) ==
    CASE observePath = "core" -> << ".well-known", "core" >>
      [] observePath = "stats" -> << "cli", "stats" >>
      [] observePath = "stats2" -> << "cli", "stats2" >>
      [] OTHER -> <<>>

\* The request _query builds before it sets the Observe option and the token.
Request(observePath, messageId, observe, tokenLength, token) ==
    [ messageType |-> "NON", codeClass |-> "Request", codeDetail |-> "GET",
      messageId |-> messageId, uriPath |-> UriPath(observePath),
      observe |-> << observe >>, tokenLength |-> tokenLength, token |-> token ]

\* The token of a registration: decoded from tokenText, or two random bytes.
RegisterToken(tokenText, random) ==
    IF Truthy(tokenText)
    THEN DecodeToken(tokenText)
    ELSE [ raised |-> "none", token |-> << random[1], random[2] >> ]

\* Store that keeps the token of a key already in the table (setdefault).
StoreIfAbsent(paths, observePath, token) ==
    [ k \in DOMAIN paths \cup { observePath } |->
        IF k \in DOMAIN paths THEN paths[k] ELSE token ]

\* self._registeredPaths[observePath] = token
Store(paths, observePath, token) ==
    [ k \in DOMAIN paths \cup { observePath } |->
        IF k = observePath THEN token ELSE paths[k] ]

\* Delete that removes every entry that holds the token of observePath.
DeleteByToken(paths, observePath) ==
    [ k \in { j \in DOMAIN paths : paths[j] # paths[observePath] } |-> paths[k] ]

\* del self._registeredPaths[observePath]
Delete(paths, observePath) ==
    [ k \in DOMAIN paths \ { observePath } |-> paths[k] ]

\* QueryRegister that stores the new bytearray before it fills it, so a
\* decode that fails leaves an entry behind.
QueryRegisterStoresBeforeDecode(paths, observePath, tokenText, messageId, random) ==
    LET t == RegisterToken(tokenText, random)
    IN  IF t.raised # "none"
        THEN [ raised |-> t.raised,
               paths  |-> Store(paths, observePath, <<>>),
               sent   |-> <<>> ]
        ELSE [ raised |-> "none",
               paths  |-> Store(paths, observePath, t.token),
               sent   |-> << Request(observePath, messageId, 0,
                                     IF Truthy(tokenText)
                                     THEN TextTokenLength(tokenText) ELSE 2,
                                     t.token) >> ]

\* QueryRegister whose request carries the token the key had before (the
\* message filled in before the new token is stored).
QueryRegisterSendsOldToken(paths, observePath, tokenText, messageId, random) ==
    LET t == RegisterToken(tokenText, random)
    IN  IF t.raised # "none"
        THEN [ raised |-> t.raised, paths |-> paths, sent |-> <<>> ]
        ELSE [ raised |-> "none",
               paths  |-> Store(paths, observePath, t.token),
               sent   |-> << Request(observePath, messageId, 0, 2,
                                     IF observePath \in DOMAIN paths
                                     THEN paths[observePath]
                                     ELSE t.token) >> ]

\* The register branch of _query: what it raises, the table it leaves and
\* the messages it sends.
QueryRegister(paths, observePath, tokenText, messageId, random) ==
    LET t == RegisterToken(tokenText, random)
    IN  IF t.raised # "none"
        THEN [ raised |-> t.raised, paths |-> paths, sent |-> <<>> ]
        ELSE [ raised |-> "none",
               paths  |-> Store(paths, observePath, t.token),
               sent   |-> << Request(observePath, messageId, 0,
                                     IF Truthy(tokenText)
                                     THEN TextTokenLength(tokenText) ELSE 2,
                                     t.token) >> ]

\* QueryDeregister without the del: the entry stays in the table.
QueryDeregisterKeepsEntry(paths, observePath, messageId) ==
    IF observePath \notin DOMAIN paths
    THEN [ raised |-> "KeyError", paths |-> paths, sent |-> <<>> ]
    ELSE [ raised |-> "none",
           paths  |-> paths,
           sent   |-> << Request(observePath, messageId, 1, 2,
                                 paths[observePath]) >> ]

\* QueryDeregister that looks the token up with a default (dict.get) and so
\* sends a deregistration for a key that is not in the table.
QueryDeregisterLenient(paths, observePath, messageId) ==
    IF observePath \notin DOMAIN paths
    THEN [ raised |-> "none", paths |-> paths,
           sent   |-> << Request(observePath, messageId, 1, 2, None) >> ]
    ELSE [ raised |-> "none",
           paths  |-> Delete(paths, observePath),
           sent   |-> << Request(observePath, messageId, 1, 2,
                                 paths[observePath]) >> ]

\* The deregister branch of _query.
QueryDeregister(paths, observePath, messageId) ==
    IF observePath \notin DOMAIN paths
    THEN [ raised |-> "KeyError", paths |-> paths, sent |-> <<>> ]
    ELSE [ raised |-> "none",
           paths  |-> Delete(paths, observePath),
           sent   |-> << Request(observePath, messageId, 1, 2,
                                 paths[observePath]) >> ]

\* _query: with an observeAction that is neither 'reg' nor 'dereg' the
\* request goes out with no Observe option and the default empty token.
Query(paths, observeAction, observePath, tokenText, messageId, random) ==
    CASE observeAction = "reg" ->
           QueryRegister(paths, observePath, tokenText, messageId, random)
      [] observeAction = "dereg" ->
           QueryDeregister(paths, observePath, messageId)
      [] OTHER ->
           [ raised |-> "none", paths |-> paths,
             sent   |-> << [ Request(observePath, messageId, 0, 0, None)
                               EXCEPT !.observe = <<>> ] >> ]

(***************************************************************************)
(* _sendNotifResponse and _responseClient.                                 *)
(***************************************************************************)

\* NotifResponse that ignores responseType and always sends an ACK.
NotifResponseAlwaysAck(notif, responseType) ==
    [ messageType |-> "ACK",
      codeClass |-> "Empty", codeDetail |-> "Empty",
      messageId |-> notif.messageId, uriPath |-> <<>>, observe |-> <<>>,
      tokenLength |-> 0, token |-> None ]

\* NotifResponse that does not copy the message ID of the notification.
NotifResponseNewId(notif, responseType) ==
    [ messageType |-> IF responseType = "reset" THEN "RST" ELSE "ACK",
      codeClass |-> "Empty", codeDetail |-> "Empty",
      messageId |-> 0, uriPath |-> <<>>, observe |-> <<>>,
      tokenLength |-> 0, token |-> None ]

\* NotifResponse that copies the token of the notification as well.
NotifResponseEchoesToken(notif, responseType) ==
    [ messageType |-> IF responseType = "reset" THEN "RST" ELSE "ACK",
      codeClass |-> "Empty", codeDetail |-> "Empty",
      messageId |-> notif.messageId, uriPath |-> <<>>, observe |-> <<>>,
      tokenLength |-> Len(notif.token), token |-> notif.token ]

\* The empty ACK or RST _sendNotifResponse sends for the notification notif.
NotifResponse(notif, responseType) ==
    [ messageType |-> IF responseType = "reset" THEN "RST" ELSE "ACK",
      codeClass |-> "Empty", codeDetail |-> "Empty",
      messageId |-> notif.messageId, uriPath |-> <<>>, observe |-> <<>>,
      tokenLength |-> 0, token |-> None ]

\* message.token in self._registeredPaths.values()
TokenRegistered(paths, token) == \E k \in DOMAIN paths : paths[k] = token

\* ResponseClientSent that ACKs a confirmable notification under every
\* policy but reset.
ResponseClientSentAckUnlessReset(paths, action, message) ==
    IF TokenRegistered(paths, message.token)
    THEN CASE message.messageType = "CON" ->
                IF action = "reset"
                THEN << NotifResponse(message, "reset") >>
                ELSE << NotifResponse(message, "ack") >>
           [] message.messageType = "NON" ->
                IF action = "reset_non"
                THEN << NotifResponse(message, "reset") >>
                ELSE <<>>
           [] OTHER -> <<>>
    ELSE <<>>

\* ResponseClientSent whose non-confirmable branch tests for 'reset'.
ResponseClientSentNonReset(paths, action, message) ==
    IF TokenRegistered(paths, message.token)
    THEN CASE message.messageType = "CON" ->
                CASE action = "reset" -> << NotifResponse(message, "reset") >>
                  [] action = "None"  -> << NotifResponse(message, "ack") >>
                  [] OTHER -> <<>>
           [] message.messageType = "NON" ->
                IF action = "reset"
                THEN << NotifResponse(message, "reset") >>
                ELSE <<>>
           [] OTHER -> <<>>
    ELSE <<>>

\* ResponseClientSent without the test of the token against the table.
ResponseClientSentAnyToken(paths, action, message) ==
    CASE message.messageType = "CON" ->
           CASE action = "reset" -> << NotifResponse(message, "reset") >>
             [] action = "None"  -> << NotifResponse(message, "ack") >>
             [] OTHER -> <<>>
      [] message.messageType = "NON" ->
           IF action = "reset_non"
           THEN << NotifResponse(message, "reset") >>
           ELSE <<>>
      [] OTHER -> <<>>

\* The messages _responseClient sends for an inbound message.
\* ResponseClientSent that takes reset_non as a reset for CON too.
ResponseClientSentResetNonCoversCon(paths, action, message) ==
    IF TokenRegistered(paths, message.token)
    THEN CASE message.messageType = "CON" ->
                CASE action \in { "reset", "reset_non" } ->
                       << NotifResponse(message, "reset") >>
                  [] action = "None"  -> << NotifResponse(message, "ack") >>
                  [] OTHER -> <<>>
           [] message.messageType = "NON" ->
                IF action = "reset_non"
                THEN << NotifResponse(message, "reset") >>
                ELSE <<>>
           [] OTHER -> <<>>
    ELSE <<>>

\* ResponseClientSent that answers notifications only: a message without an
\* Observe option gets nothing.
ResponseClientSentNotificationsOnly(paths, action, message) ==
    IF TokenRegistered(paths, message.token) /\ message.observe # <<>>
    THEN CASE message.messageType = "CON" ->
                CASE action = "reset" -> << NotifResponse(message, "reset") >>
                  [] action = "None"  -> << NotifResponse(message, "ack") >>
                  [] OTHER -> <<>>
           [] message.messageType = "NON" ->
                IF action = "reset_non"
                THEN << NotifResponse(message, "reset") >>
                ELSE <<>>
           [] OTHER -> <<>>
    ELSE <<>>

ResponseClientSent(paths, action, message) ==
    IF TokenRegistered(paths, message.token)
    THEN CASE message.messageType = "CON" ->
                CASE action = "reset" -> << NotifResponse(message, "reset") >>
                  [] action = "None"  -> << NotifResponse(message, "ack") >>
                  [] OTHER -> <<>>
           [] message.messageType = "NON" ->
                IF action = "reset_non"
                THEN << NotifResponse(message, "reset") >>
                ELSE <<>>
           [] OTHER -> <<>>
    ELSE <<>>

(***************************************************************************)
(* The state machine.                                                      *)
(***************************************************************************)

\* The entry of requested for a resource no request was sent for.
NoRequest == [ observe |-> <<>>, token |-> <<>> ]

\* The resource a request is addressed to, read from its Uri-Path options.
RequestKey(m) ==
    CASE m.uriPath = << ".well-known", "core" >> -> "core"
      [] m.uriPath = << "cli", "stats" >> -> "stats"
      [] m.uriPath = << "cli", "stats2" >> -> "stats2"
      [] OTHER -> "None"

\* requested after a handler invocation that gave the messages s to
\* CoapClient.send (a handler sends at most one message).  The token is
\* recorded for a registration (Observe=0) only.
RequestedAfter(old, s) ==
    IF s # <<>> /\ s[1].codeClass = "Request" /\ RequestKey(s[1]) # "None"
    THEN [ old EXCEPT ![RequestKey(s[1])] =
             [ observe |-> s[1].observe,
               token   |-> IF s[1].observe = << 0 >> THEN s[1].token ELSE <<>> ] ]
    ELSE old

ProgramState == [ registeredPaths |-> registeredPaths,
                  notificationAction |-> notificationAction ]

Init ==
    /\ registeredPaths = <<>>
    /\ notificationAction = "None"
    /\ closed = FALSE
    /\ call = [ handler |-> "__init__", path |-> "", pathQuery |-> NoQuery,
                message |-> NoMessage ]
    /\ before = [ registeredPaths |-> <<>>, notificationAction |-> "None" ]
    /\ sent = <<>>
    /\ raised = "none"
    /\ previous = "None"
    /\ repeated = << 0, 0 >>
    /\ requested = [ k \in { "stats", "core", "stats2" } |-> NoRequest ]
    /\ delay = 0
    /\ verIgnores = 0
    /\ testerCall = [ handler |-> "__init__", path |-> "", value |-> <<>>,
                      before |-> [ delay |-> 0, verIgnores |-> 0 ],
                      raised |-> "none", resourceValue |-> "None", slept |-> 0,
                      counted |-> [ n |-> 0, ignored |-> 0 ] ]

\* The random draws a command uses: _query always draws a message ID, and
\* draws token bytes only to register without a token text.
RandomDraws(path, pathQuery) ==
    IF ObserveAction(path) = "reg" /\ ~Truthy(pathQuery)
    THEN RandomTokens
    ELSE { << 0, 0 >> }

\* _postServerResource(resource), with the _query call it makes.
PostServerResource ==
    \E path \in CommandPaths, pathQuery \in TokenTexts,
       messageId \in RandomMessageIds :
      \E random \in RandomDraws(path, pathQuery) :
        LET action == NewNotificationAction(path, notificationAction)
            q == IF ObservePath(path) # "None"
                 THEN Query(registeredPaths, ObserveAction(path), ObservePath(path),
                            QueryTokenText(path, pathQuery), messageId, random)
                 ELSE [ raised |-> "none", paths |-> registeredPaths, sent |-> <<>> ]
        IN  /\ ~closed
            /\ ObserveAction(path) # "reg" => pathQuery = NoQuery
            /\ notificationAction' = action
            /\ registeredPaths' = q.paths
            /\ sent' = q.sent
            /\ raised' = q.raised
            /\ call' = [ handler |-> "_postServerResource", path |-> path,
                         pathQuery |-> pathQuery, message |-> NoMessage ]
            /\ before' = ProgramState
            /\ UNCHANGED closed

\* ResponseClient that drops the entries of a token whose response carries
\* no Observe option (a rejected registration).
ResponseClientDropsRejected ==
    \E message \in InboundMessages :
        /\ ~closed
        /\ sent' = ResponseClientSent(registeredPaths, notificationAction, message)
        /\ raised' = "none"
        /\ call' = [ handler |-> "_responseClient", path |-> "",
                     pathQuery |-> NoQuery, message |-> message ]
        /\ before' = ProgramState
        /\ registeredPaths' =
              IF message.observe = <<>>
              THEN [ k \in { j \in DOMAIN registeredPaths :
                               registeredPaths[j] # message.token } |->
                       registeredPaths[k] ]
              ELSE registeredPaths
        /\ UNCHANGED << notificationAction, closed >>

\* ResponseClient that answers a message only once: a message identical to
\* the one handled just before it gets nothing.
ResponseClientDeduplicates ==
    \E message \in InboundMessages :
        /\ ~closed
        /\ sent' = IF call.handler = "_responseClient" /\ call.message = message
                   THEN <<>>
                   ELSE ResponseClientSent(registeredPaths, notificationAction,
                                           message)
        /\ raised' = "none"
        /\ call' = [ handler |-> "_responseClient", path |-> "",
                     pathQuery |-> NoQuery, message |-> message ]
        /\ before' = ProgramState
        /\ UNCHANGED << registeredPaths, notificationAction, closed >>

\* ResponseClient run in the middle of a register of stats, which has
\* stored its token and not yet sent its request (a handler preempted).
ResponseClientDuringRegister ==
    \E message \in InboundMessages :
        LET stored == Store(registeredPaths, "stats", << 166, 5 >>)
        IN  /\ ~closed
            /\ sent' = ResponseClientSent(stored, notificationAction, message)
            /\ raised' = "none"
            /\ call' = [ handler |-> "_responseClient", path |-> "",
                         pathQuery |-> NoQuery, message |-> message ]
            /\ before' = [ registeredPaths |-> stored,
                           notificationAction |-> notificationAction ]
            /\ registeredPaths' = stored
            /\ UNCHANGED << notificationAction, closed >>

\* _responseClient(message), with the _sendNotifResponse call it makes.
ResponseClient ==
    \E message \in InboundMessages :
        /\ ~closed
        /\ sent' = ResponseClientSent(registeredPaths, notificationAction, message)
        /\ raised' = "none"
        /\ call' = [ handler |-> "_responseClient", path |-> "",
                     pathQuery |-> NoQuery, message |-> message ]
        /\ before' = ProgramState
        /\ UNCHANGED << registeredPaths, notificationAction, closed >>

\* The _query call of a command whose path names a register or deregister.
CommandQuery(path, pathQuery, messageId, random) ==
    Query(registeredPaths, ObserveAction(path), ObservePath(path),
          QueryTokenText(path, pathQuery), messageId, random)

\* PostServerResourceSendFails with the table restored when the send raises
\* (the del placed after the send).
PostServerResourceSendFailsRollsBack ==
    \E path \in CommandPaths, pathQuery \in TokenTexts,
       messageId \in RandomMessageIds :
      \E random \in RandomDraws(path, pathQuery) :
        /\ ~closed
        /\ ObservePath(path) # "None"
        /\ ObserveAction(path) # "reg" => pathQuery = NoQuery
        /\ CommandQuery(path, pathQuery, messageId, random).raised = "none"
        /\ registeredPaths' = registeredPaths
        /\ sent' = <<>>
        /\ raised' = "socket.error"
        /\ call' = [ handler |-> "_postServerResource", path |-> path,
                     pathQuery |-> pathQuery, message |-> NoMessage ]
        /\ before' = ProgramState
        /\ UNCHANGED << notificationAction, closed >>

\* _postServerResource(resource) for a register or deregister command whose
\* self._client.send(msg), the last statement of _query, raises: the table
\* has been updated by then, and no message leaves.
PostServerResourceSendFails ==
    \E path \in CommandPaths, pathQuery \in TokenTexts,
       messageId \in RandomMessageIds :
      \E random \in RandomDraws(path, pathQuery) :
        /\ ~closed
        /\ ObservePath(path) # "None"
        /\ ObserveAction(path) # "reg" => pathQuery = NoQuery
        /\ CommandQuery(path, pathQuery, messageId, random).raised = "none"
        /\ registeredPaths' = CommandQuery(path, pathQuery, messageId, random).paths
        /\ sent' = <<>>
        /\ raised' = "socket.error"
        /\ call' = [ handler |-> "_postServerResource", path |-> path,
                     pathQuery |-> pathQuery, message |-> NoMessage ]
        /\ before' = ProgramState
        /\ UNCHANGED << notificationAction, closed >>

\* The number of ACKs among the messages s.
AckCount(s) == Cardinality({ i \in 1 .. Len(s) : s[i].messageType = "ACK" })

\* repeated after a handler invocation: an inbound message identical to the
\* one handled just before it extends the run, any other one starts a run.
RepeatedAfter(old, c, c2, s2) ==
    IF c2.handler # "_responseClient"
    THEN << 0, 0 >>
    ELSE IF c.handler = "_responseClient" /\ c.message = c2.message
         THEN << old[1] + 1, old[2] + AckCount(s2) >>
         ELSE << 1, AckCount(s2) >>

\* Close that deregisters a key still in the table before it closes.
CloseDeregistersAll ==
    /\ ~closed
    /\ closed' = TRUE
    /\ sent' = IF registeredPaths = <<>>
               THEN <<>>
               ELSE LET k == CHOOSE j \in DOMAIN registeredPaths : TRUE
                    IN  << Request(k, 4660, 1, 2, registeredPaths[k]) >>
    /\ registeredPaths' = <<>>
    /\ raised' = "none"
    /\ call' = [ handler |-> "close", path |-> "", pathQuery |-> NoQuery,
                 message |-> NoMessage ]
    /\ before' = ProgramState
    /\ UNCHANGED notificationAction

\* close(): self._client.close() and nothing else.
Close ==
    /\ ~closed
    /\ closed' = TRUE
    /\ sent' = <<>>
    /\ raised' = "none"
    /\ call' = [ handler |-> "close", path |-> "", pathQuery |-> NoQuery,
                 message |-> NoMessage ]
    /\ before' = ProgramState
    /\ UNCHANGED << registeredPaths, notificationAction >>

\* The key the last handler invocation registered, "None" if it did not
\* register one.
Registered ==
    IF /\ call.handler = "_postServerResource"
       /\ ObserveAction(call.path) = "reg"
       /\ raised = "none"
    THEN ObservePath(call.path)
    ELSE "None"

Next ==
    \/ PostServerResource /\ UNCHANGED << previous, repeated, requested, testerVars >>
    \/ ResponseClient /\ UNCHANGED << previous, repeated, requested, testerVars >>
    \/ Close /\ UNCHANGED << previous, repeated, requested, testerVars >>

Spec == Init /\ [][Next]_vars

\* The same program, with previous recording the invocation before the last.
NextHistory ==
    \/ PostServerResource /\ previous' = Registered /\ UNCHANGED << repeated, requested, testerVars >>
    \/ ResponseClient /\ previous' = Registered /\ UNCHANGED << repeated, requested, testerVars >>
    \/ Close /\ previous' = Registered /\ UNCHANGED << repeated, requested, testerVars >>

SpecHistory == Init /\ [][NextHistory]_vars

\* The policy command the last handler invocation was, "None" if it was not
\* one.
PolicyCommand ==
    IF /\ call.handler = "_postServerResource"
       /\ call.path \in { "/notif/con_ignore", "/notif/con_reset",
                          "/notif/non_reset" }
    THEN call.path
    ELSE "None"

\* The same program, with previous recording a policy command.
NextPolicyHistory ==
    \/ PostServerResource /\ previous' = PolicyCommand /\ UNCHANGED << repeated, requested, testerVars >>
    \/ ResponseClient /\ previous' = PolicyCommand /\ UNCHANGED << repeated, requested, testerVars >>
    \/ Close /\ previous' = PolicyCommand /\ UNCHANGED << repeated, requested, testerVars >>

SpecPolicyHistory == Init /\ [][NextPolicyHistory]_vars

\* The same program, with the sends of _query allowed to fail.
NextSendFailure ==
    \/ PostServerResource /\ UNCHANGED << previous, repeated, requested, testerVars >>
    \/ PostServerResourceSendFails /\ UNCHANGED << previous, repeated, requested, testerVars >>
    \/ ResponseClient /\ UNCHANGED << previous, repeated, requested, testerVars >>
    \/ Close /\ UNCHANGED << previous, repeated, requested, testerVars >>

SpecSendFailure == Init /\ [][NextSendFailure]_vars

\* The same program, with repeated counting runs of at most MaxDuplicates
\* identical inbound messages.
NextDuplicates ==
    \/ /\ PostServerResource
       /\ repeated' = RepeatedAfter(repeated, call, call', sent')
       /\ UNCHANGED << previous, requested, testerVars >>
    \/ /\ ResponseClient
       /\ repeated' = RepeatedAfter(repeated, call, call', sent')
       /\ repeated'[1] <= MaxDuplicates
       /\ UNCHANGED << previous, requested, testerVars >>
    \/ /\ Close
       /\ repeated' = RepeatedAfter(repeated, call, call', sent')
       /\ UNCHANGED << previous, requested, testerVars >>

SpecDuplicates == Init /\ [][NextDuplicates]_vars

\* The same program, with requested recording the requests sent.
NextRequests ==
    \/ /\ PostServerResource
       /\ requested' = RequestedAfter(requested, sent')
       /\ UNCHANGED << previous, repeated, testerVars >>
    \/ /\ ResponseClient
       /\ requested' = RequestedAfter(requested, sent')
       /\ UNCHANGED << previous, repeated, testerVars >>
    \/ /\ Close
       /\ requested' = RequestedAfter(requested, sent')
       /\ UNCHANGED << previous, repeated, testerVars >>

SpecRequests == Init /\ [][NextRequests]_vars

(***************************************************************************)
(* The test server, gcoaptest/tester.py.                                   *)
(***************************************************************************)

VERSION == "0.1"

\* resource.value of /toobig: '1234567890' * 13.
TooBigValue == "1234567890 * 13"

\* The decimal digits, by value + 1.
DecimalDigits == << "0", "1", "2", "3", "4", "5", "6", "7", "8", "9" >>

\* The payloads of PUT /ver/ignores: the counts 0 .. MaxIgnores, a negative
\* number and a text that is no number.
IgnoresPayloads ==
    { << DecimalDigits[n + 1] >> : n \in 0 .. MaxIgnores }
        \cup { << "-", "1" >>, << "x" >> }

\* The payloads of POST /cf/delay: 0 .. MaxDelay seconds and a text that is
\* no number.
DelayPayloads ==
    { << DecimalDigits[n + 1] >> : n \in 0 .. MaxDelay } \cup { << "x" >> }

GetPaths == { "/ver", "/toobig", "/ignore", "/other" }

\* int(resource.value) for a text of one digit with an optional sign.
IntOf(text) ==
    LET digit(c) == CHOOSE n \in 0 .. 9 : DecimalDigits[n + 1] = c
        isDigit(c) == \E n \in 0 .. 9 : DecimalDigits[n + 1] = c
    IN  CASE Len(text) = 1 /\ isDigit(text[1]) ->
               [ ok |-> TRUE, value |-> digit(text[1]) ]
          [] Len(text) = 2 /\ text[1] = "-" /\ isDigit(text[2]) ->
               [ ok |-> TRUE, value |-> 0 - digit(text[2]) ]
          [] Len(text) = 2 /\ text[1] = "+" /\ isDigit(text[2]) ->
               [ ok |-> TRUE, value |-> digit(text[2]) ]
          [] OTHER -> [ ok |-> FALSE, value |-> 0 ]

\* GetResourceOutcome that ignores /ver while the count is not negative.
GetResourceOutcomeOffByOne(path, d, v) ==
    CASE path = "/ver" ->
           IF v >= 0
           THEN [ raised |-> "IgnoreRequestException", verIgnores |-> v - 1,
                  resourceValue |-> "None", slept |-> 0 ]
           ELSE [ raised |-> "none", verIgnores |-> v,
                  resourceValue |-> VERSION, slept |-> d ]
      [] path = "/toobig" ->
           [ raised |-> "none", verIgnores |-> v,
             resourceValue |-> TooBigValue, slept |-> d ]
      [] path = "/ignore" ->
           [ raised |-> "IgnoreRequestException", verIgnores |-> v,
             resourceValue |-> "None", slept |-> d ]
      [] OTHER ->
           [ raised |-> "NotImplementedError", verIgnores |-> v,
             resourceValue |-> "None", slept |-> d ]

\* GetResourceOutcome in which /ignore shares the ignore branch of /ver and
\* so uses up the count.
GetResourceOutcomeIgnoreCounts(path, d, v) ==
    CASE path = "/ver" ->
           IF v > 0
           THEN [ raised |-> "IgnoreRequestException", verIgnores |-> v - 1,
                  resourceValue |-> "None", slept |-> 0 ]
           ELSE [ raised |-> "none", verIgnores |-> v,
                  resourceValue |-> VERSION, slept |-> d ]
      [] path = "/toobig" ->
           [ raised |-> "none", verIgnores |-> v,
             resourceValue |-> TooBigValue, slept |-> d ]
      [] path = "/ignore" ->
           IF v > 0
           THEN [ raised |-> "IgnoreRequestException", verIgnores |-> v - 1,
                  resourceValue |-> "None", slept |-> d ]
           ELSE [ raised |-> "none", verIgnores |-> v,
                  resourceValue |-> VERSION, slept |-> d ]
      [] OTHER ->
           [ raised |-> "NotImplementedError", verIgnores |-> v,
             resourceValue |-> "None", slept |-> d ]

\* _getResource(resource) with _delay = d and _verIgnores = v: the
\* exception it ends with, _verIgnores afterwards, the resource.value it
\* sets and the seconds it sleeps.
GetResourceOutcome(path, d, v) ==
    CASE path = "/ver" ->
           IF v > 0
           THEN [ raised |-> "IgnoreRequestException", verIgnores |-> v - 1,
                  resourceValue |-> "None", slept |-> 0 ]
           ELSE [ raised |-> "none", verIgnores |-> v,
                  resourceValue |-> VERSION, slept |-> d ]
      [] path = "/toobig" ->
           [ raised |-> "none", verIgnores |-> v,
             resourceValue |-> TooBigValue, slept |-> d ]
      [] path = "/ignore" ->
           [ raised |-> "IgnoreRequestException", verIgnores |-> v,
             resourceValue |-> "None", slept |-> d ]
      [] OTHER ->
           [ raised |-> "NotImplementedError", verIgnores |-> v,
             resourceValue |-> "None", slept |-> d ]

\* _postResource(resource): the exception, _delay afterwards, the sleep.
PostResourceOutcome(path, value, d) ==
    IF path = "/cf/delay"
    THEN IF IntOf(value).ok
         THEN [ raised |-> "none", delay |-> IntOf(value).value, slept |-> 0 ]
         ELSE [ raised |-> "ValueError", delay |-> d, slept |-> 0 ]
    ELSE [ raised |-> "NotImplementedError", delay |-> d, slept |-> d ]

\* _putResource(resource): the exception and _verIgnores afterwards.
PutResourceOutcome(path, value, v) ==
    IF path = "/ver/ignores"
    THEN IF IntOf(value).ok
         THEN [ raised |-> "none", verIgnores |-> IntOf(value).value ]
         ELSE [ raised |-> "ValueError", verIgnores |-> v ]
    ELSE [ raised |-> "NotImplementedError", verIgnores |-> v ]

TesterState == [ delay |-> delay, verIgnores |-> verIgnores ]

GetResource ==
    \E path \in GetPaths :
        LET g == GetResourceOutcome(path, delay, verIgnores)
        IN  /\ verIgnores' = g.verIgnores
            /\ testerCall' =
                 [ handler |-> "_getResource", path |-> path, value |-> <<>>,
                   before |-> TesterState, raised |-> g.raised,
                   resourceValue |-> g.resourceValue, slept |-> g.slept,
                   counted |->
                     IF path = "/ver" /\ g.raised = "IgnoreRequestException"
                     THEN [ testerCall.counted EXCEPT !.ignored = @ + 1 ]
                     ELSE testerCall.counted ]
            /\ UNCHANGED delay

PostResource ==
    \E path \in { "/cf/delay", "/other" }, value \in DelayPayloads :
        LET o == PostResourceOutcome(path, value, delay)
        IN  /\ path = "/other" => value = << "0" >>
            /\ delay' = o.delay
            /\ testerCall' =
                 [ handler |-> "_postResource", path |-> path, value |-> value,
                   before |-> TesterState, raised |-> o.raised,
                   resourceValue |-> "None", slept |-> o.slept,
                   counted |-> testerCall.counted ]
            /\ UNCHANGED verIgnores

PutResource ==
    \E path \in { "/ver/ignores", "/other" }, value \in IgnoresPayloads :
        LET o == PutResourceOutcome(path, value, verIgnores)
        IN  /\ path = "/other" => value = << "0" >>
            /\ verIgnores' = o.verIgnores
            /\ testerCall' =
                 [ handler |-> "_putResource", path |-> path, value |-> value,
                   before |-> TesterState, raised |-> o.raised,
                   resourceValue |-> "None", slept |-> 0,
                   counted |->
                     IF path = "/ver/ignores" /\ o.raised = "none"
                     THEN [ n |-> o.verIgnores, ignored |-> 0 ]
                     ELSE testerCall.counted ]
            /\ UNCHANGED delay

NextTester ==
    \/ GetResource /\ UNCHANGED observerVars
    \/ PostResource /\ UNCHANGED observerVars
    \/ PutResource /\ UNCHANGED observerVars

SpecTester == Init /\ [][NextTester]_vars

(***************************************************************************)
(* Vocabulary of the properties.                                           *)
(***************************************************************************)

\* The resource keys of the command paths.
Keys == { "stats", "core", "stats2" }

RegisterPath(k) ==
    CASE k = "stats" -> "/reg/stats" [] k = "core" -> "/reg/core"
      [] k = "stats2" -> "/reg/stats2"

DeregisterPath(k) ==
    CASE k = "stats" -> "/dereg/stats" [] k = "core" -> "/dereg/core"
      [] k = "stats2" -> "/dereg/stats2"

\* The last handler invocation was the command c.
IsCommand(c, path) == c.handler = "_postServerResource" /\ c.path = path

\* The last handler invocation was _responseClient for a message of type t.
IsInbound(c, t) == c.handler = "_responseClient" /\ c.message.messageType = t

\* token is the token of some entry of the table paths.
Live(paths, token) == \E k \in DOMAIN paths : paths[k] = token

\* m is an empty message of the given type that answers message ID id.
IsEmptyResponse(m, type, id) ==
    /\ m.messageType = type
    /\ m.codeClass = "Empty"
    /\ m.messageId = id
    /\ m.tokenLength = 0
    /\ m.token = <<>>

\* A request that carries exactly one Observe option, of the given value.
IsObserveRequest(m, value) ==
    m.codeClass = "Request" /\ m.observe = << value >>

\* text is a string of hex digits of even length.
IsEvenHexText(text) ==
    /\ text # NoQuery
    /\ Len(text) % 2 = 0
    /\ \A i \in 1 .. Len(text) : text[i] \in DOMAIN HexDigits

\* The bytes an even-length hex text denotes.
HexBytes(text) ==
    [ i \in 1 .. (Len(text) \div 2) |->
        16 * HexDigits[text[2 * i - 1]] + HexDigits[text[2 * i]] ]

(***************************************************************************)
(* The claims.                                                             *)
(***************************************************************************)

\* C1: for every key k, a register of k that succeeds, followed immediately
\* by deregister of k, leaves the table without an entry for k; the two
\* invocations send exactly one message each, the first with Observe=0 and
\* the second with Observe=1, and both carry the same token.
C1_RegisterThenDeregister ==
    [][ \A k \in Keys :
          ( /\ IsCommand(call, RegisterPath(k))
            /\ raised = "none"
            /\ IsCommand(call', DeregisterPath(k)) )
          => /\ raised' = "none"
             /\ k \notin DOMAIN registeredPaths'
             /\ Len(sent) = 1
             /\ Len(sent') = 1
             /\ IsObserveRequest(sent[1], 0)
             /\ IsObserveRequest(sent'[1], 1)
             /\ sent'[1].token = sent[1].token ]_vars

\* C1 happens: stats was registered by the invocation before the last, and
\* the last deregistered it with the token the registration stored.
C1_Witness ==
    /\ previous = "stats"
    /\ IsCommand(call, "/dereg/stats")
    /\ raised = "none"
    /\ "stats" \notin DOMAIN registeredPaths
    /\ Len(sent) = 1
    /\ IsObserveRequest(sent[1], 1)
    /\ sent[1].token = before.registeredPaths["stats"]

\* C2: a register of a key k that is already in the table replaces its
\* token: afterwards the entry of k holds the token of this call, the one
\* its request carries.
C2_ReRegisterReplacesToken ==
    \A k \in Keys :
        ( /\ IsCommand(call, RegisterPath(k))
          /\ raised = "none"
          /\ k \in DOMAIN before.registeredPaths )
        => /\ k \in DOMAIN registeredPaths
           /\ Len(sent) = 1
           /\ IsObserveRequest(sent[1], 0)
           /\ registeredPaths[k] = sent[1].token

\* C2 happens: stats is registered again and its token has changed.
C2_Witness ==
    /\ IsCommand(call, "/reg/stats")
    /\ raised = "none"
    /\ "stats" \in DOMAIN before.registeredPaths
    /\ registeredPaths["stats"] # before.registeredPaths["stats"]
    /\ registeredPaths["stats"] = sent[1].token

\* C3: under policy reset, an inbound CON message whose token is in the
\* table is answered by exactly one message, an RST with the message ID of
\* the inbound message and an empty token.
C3_ResetAnswersConWithRst ==
    ( /\ IsInbound(call, "CON")
      /\ before.notificationAction = "reset"
      /\ Live(before.registeredPaths, call.message.token) )
    => /\ Len(sent) = 1
       /\ IsEmptyResponse(sent[1], "RST", call.message.messageId)

\* C3 happens: a CON notification with a nonzero message ID was reset.
C3_Witness ==
    /\ IsInbound(call, "CON")
    /\ before.notificationAction = "reset"
    /\ Live(before.registeredPaths, call.message.token)
    /\ call.message.messageId = 1
    /\ Len(sent) = 1
    /\ sent[1].messageType = "RST"

\* C4: under policy ignore, an inbound CON message whose token is in the
\* table is answered by no message.
C4_IgnoreSendsNothing ==
    ( /\ IsInbound(call, "CON")
      /\ before.notificationAction = "ignore"
      /\ Live(before.registeredPaths, call.message.token) )
    => sent = <<>>

\* C4 happens: a CON notification for a live subscription was handled under
\* policy ignore.
C4_Witness ==
    /\ IsInbound(call, "CON")
    /\ before.notificationAction = "ignore"
    /\ Live(before.registeredPaths, call.message.token)
    /\ sent = <<>>

\* C5: under the initial policy (ack, _notificationAction None), an inbound
\* message whose token is in the table is answered by exactly one ACK with
\* its message ID if it is CON, and by no message if it is NON.
C5_AckPolicy ==
    ( /\ call.handler = "_responseClient"
      /\ before.notificationAction = "None"
      /\ Live(before.registeredPaths, call.message.token) )
    => /\ call.message.messageType = "CON" =>
            /\ Len(sent) = 1
            /\ IsEmptyResponse(sent[1], "ACK", call.message.messageId)
       /\ call.message.messageType = "NON" => sent = <<>>

\* C5 happens: a CON notification with a nonzero message ID was ACKed.
C5_Witness ==
    /\ IsInbound(call, "CON")
    /\ before.notificationAction = "None"
    /\ Live(before.registeredPaths, call.message.token)
    /\ call.message.messageId = 1
    /\ Len(sent) = 1
    /\ sent[1].messageType = "ACK"

C7_UnknownTokenSendsNothing ==
    ( /\ call.handler = "_responseClient"
      /\ ~Live(before.registeredPaths, call.message.token) )
    => sent = <<>>

\* C7 happens: the table is not empty, the policy answers CON messages, and
\* a CON message with a token that is not in the table was handled.
C7_Witness ==
    /\ IsInbound(call, "CON")
    /\ before.notificationAction = "reset"
    /\ before.registeredPaths # <<>>
    /\ ~Live(before.registeredPaths, call.message.token)
    /\ sent = <<>>

\* C8 (as claimed): a CON message with the token of the entry of k, under
\* policy ack, is answered by exactly one ACK with its message ID; and once
\* k has been deregistered, an inbound message with the token that
\* deregistration removed is answered by no message.
C8_DeregisteredTokenIgnored ==
    [][ \A k \in Keys :
          /\ ( /\ k \in DOMAIN registeredPaths
               /\ notificationAction = "None"
               /\ IsInbound(call', "CON")
               /\ call'.message.token = registeredPaths[k] )
             => /\ Len(sent') = 1
                /\ IsEmptyResponse(sent'[1], "ACK", call'.message.messageId)
          /\ ( /\ IsCommand(call, DeregisterPath(k))
               /\ raised = "none"
               /\ call'.handler = "_responseClient"
               /\ call'.message.token = before.registeredPaths[k] )
             => sent' = <<>> ]_vars

\* The part of C9 that makes "a subsequent deregister" the next deregister
\* of k, however many other invocations come between: an invocation that is
\* neither a register nor a deregister of k leaves the entry of k as it is,
\* and a deregister of k sends the token the entry holds.
EntryKeptUntilDeregister(k) ==
    k \in DOMAIN registeredPaths =>
        /\ ( /\ ~IsCommand(call', RegisterPath(k))
             /\ ~IsCommand(call', DeregisterPath(k)) )
           => /\ k \in DOMAIN registeredPaths'
              /\ registeredPaths'[k] = registeredPaths[k]
        /\ IsCommand(call', DeregisterPath(k))
           => /\ Len(sent') = 1
              /\ IsObserveRequest(sent'[1], 1)
              /\ sent'[1].token = registeredPaths[k]

\* C9 (as claimed): for every even-length hex token text t, register(k, t)
\* stores for k the bytes t denotes, Len(t) / 2 of them, and a deregister of
\* k that follows sends a message whose token is those bytes.
C9_ExplicitTokenRoundTripAnyText ==
    [][ \A k \in Keys :
          /\ ( /\ IsCommand(call, RegisterPath(k))
               /\ IsEvenHexText(call.pathQuery) )
             => /\ raised = "none"
                /\ k \in DOMAIN registeredPaths
                /\ registeredPaths[k] = HexBytes(call.pathQuery)
                /\ Len(registeredPaths[k]) = Len(call.pathQuery) \div 2
                /\ IsCommand(call', DeregisterPath(k)) =>
                     /\ Len(sent') = 1
                     /\ IsObserveRequest(sent'[1], 1)
                     /\ sent'[1].token = HexBytes(call.pathQuery)
          /\ EntryKeptUntilDeregister(k) ]_vars

\* C9 (amended): the same for every even-length hex token text t that is not
\* the empty string.
C9_ExplicitTokenRoundTrip ==
    [][ \A k \in Keys :
          /\ ( /\ IsCommand(call, RegisterPath(k))
               /\ IsEvenHexText(call.pathQuery)
               /\ call.pathQuery # <<>> )
             => /\ raised = "none"
                /\ k \in DOMAIN registeredPaths
                /\ registeredPaths[k] = HexBytes(call.pathQuery)
                /\ Len(registeredPaths[k]) = Len(call.pathQuery) \div 2
                /\ IsCommand(call', DeregisterPath(k)) =>
                     /\ Len(sent') = 1
                     /\ IsObserveRequest(sent'[1], 1)
                     /\ sent'[1].token = HexBytes(call.pathQuery)
          /\ EntryKeptUntilDeregister(k) ]_vars

\* C9 happens: core was registered with the text "05" by the invocation
\* before the last, and the last deregistered it with the one-byte token 05.
C9_Witness ==
    /\ previous = "core"
    /\ IsCommand(call, "/dereg/core")
    /\ raised = "none"
    /\ Len(sent) = 1
    /\ sent[1].token = << 5 >>
    /\ before.registeredPaths["core"] = << 5 >>

\* C10: deregister of a key that is not in the table raises KeyError, sends
\* no message, and leaves the table and the policy as they were.
C10_DeregisterUnknownKey ==
    \A k \in Keys :
        ( /\ IsCommand(call, DeregisterPath(k))
          /\ k \notin DOMAIN before.registeredPaths )
        => /\ raised = "KeyError"
           /\ sent = <<>>
           /\ registeredPaths = before.registeredPaths
           /\ notificationAction = before.notificationAction

\* C10 happens: core is deregistered while only stats is in the table and
\* the policy has been set.
C10_Witness ==
    /\ IsCommand(call, "/dereg/core")
    /\ DOMAIN before.registeredPaths = { "stats" }
    /\ before.notificationAction = "reset"
    /\ raised = "KeyError"

\* C11: a register whose explicit token text is malformed, that is of odd
\* length or with a character that is no hex digit, fails with a format
\* error (ValueError) when the text is decoded: nothing is stored or sent.
C11_MalformedTokenTextFails ==
    \A k \in Keys :
        ( /\ IsCommand(call, RegisterPath(k))
          /\ Truthy(call.pathQuery)
          /\ ~IsEvenHexText(call.pathQuery) )
        => /\ raised = "ValueError"
           /\ sent = <<>>
           /\ registeredPaths = before.registeredPaths

\* The policy commands and the policy each one names.
PolicyPaths == { "/notif/con_ignore", "/notif/con_reset", "/notif/non_reset" }

PolicyOf(path) ==
    CASE path = "/notif/con_ignore" -> "ignore"
      [] path = "/notif/con_reset" -> "reset"
      [] path = "/notif/non_reset" -> "reset_non"

\* The messages s answer the inbound message m as the policy asks, when the
\* token of m is in the table: ignore sends nothing for CON, reset one RST
\* for CON, reset_non one RST for NON.
AnsweredUnder(policy, m, s) ==
    CASE policy = "ignore" -> ( m.messageType = "CON" => s = <<>> )
      [] policy = "reset" ->
           ( m.messageType = "CON"
               => Len(s) = 1 /\ IsEmptyResponse(s[1], "RST", m.messageId) )
      [] policy = "reset_non" ->
           ( m.messageType = "NON"
               => Len(s) = 1 /\ IsEmptyResponse(s[1], "RST", m.messageId) )

SameExcept(paths, old, k) ==
    /\ DOMAIN paths \ { k } = DOMAIN old \ { k }
    /\ \A j \in DOMAIN paths \ { k } : paths[j] = old[j]

\* C13: a command /reg/k that succeeds has, within its handler step, stored
\* a token for k (the bytes of the query string when a well-formed one is
\* present) and sent exactly one request, with Observe=0 and that token; a
\* command /dereg/k that succeeds has removed the entry of k and sent
\* exactly one request, with Observe=1 and the removed token.  No other
\* entry changes.
C13_CommandRunsOperation ==
    \A k \in Keys :
        /\ ( IsCommand(call, RegisterPath(k)) /\ raised = "none" )
           => /\ k \in DOMAIN registeredPaths
              /\ SameExcept(registeredPaths, before.registeredPaths, k)
              /\ Len(sent) = 1
              /\ IsObserveRequest(sent[1], 0)
              /\ sent[1].uriPath = UriPath(k)
              /\ sent[1].token = registeredPaths[k]
              /\ ( Truthy(call.pathQuery) /\ IsEvenHexText(call.pathQuery) )
                 => registeredPaths[k] = HexBytes(call.pathQuery)
        /\ ( IsCommand(call, DeregisterPath(k)) /\ raised = "none" )
           => /\ k \in DOMAIN before.registeredPaths
              /\ k \notin DOMAIN registeredPaths
              /\ SameExcept(registeredPaths, before.registeredPaths, k)
              /\ Len(sent) = 1
              /\ IsObserveRequest(sent[1], 1)
              /\ sent[1].uriPath = UriPath(k)
              /\ sent[1].token = before.registeredPaths[k]

\* C13 happens: /reg/core?05a6 stored the bytes 05 a6 for core next to an
\* entry of stats, and sent them.
C13_Witness ==
    /\ IsCommand(call, "/reg/core")
    /\ call.pathQuery = << "0", "5", "a", "6" >>
    /\ raised = "none"
    /\ "stats" \in DOMAIN before.registeredPaths
    /\ registeredPaths["core"] = << 5, 166 >>
    /\ Len(sent) = 1
    /\ sent[1].token = << 5, 166 >>

\* The command paths _postServerResource recognizes.
RecognizedPaths ==
    { RegisterPath(k) : k \in Keys } \cup { DeregisterPath(k) : k \in Keys }
        \cup PolicyPaths

\* C14: a command to a path outside the recognized set raises nothing,
\* sends nothing and leaves the table and the policy as they were.
C14_UnrecognizedCommandIsNoOp ==
    ( /\ call.handler = "_postServerResource"
      /\ call.path \notin RecognizedPaths )
    => /\ raised = "none"
       /\ sent = <<>>
       /\ registeredPaths = before.registeredPaths
       /\ notificationAction = before.notificationAction

\* C14 happens: /ping was posted while the table had an entry and the
\* policy was set.
C14_Witness ==
    /\ IsCommand(call, "/ping")
    /\ before.registeredPaths # <<>>
    /\ before.notificationAction = "reset"
    /\ notificationAction = "reset"
    /\ sent = <<>>

\* C15: the policy is unset (ack) after construction, and every handler
\* invocation other than a policy command leaves it as it was.
C15_PolicySetOnlyByPolicyCommand ==
    /\ call.handler = "__init__" => notificationAction = "None"
    /\ ( /\ call.handler # "__init__"
         /\ ~( call.handler = "_postServerResource"
                 /\ call.path \in PolicyPaths ) )
       => notificationAction = before.notificationAction

\* C15 happens: a register that succeeded left the policy ignore in place.
C15_Witness ==
    /\ IsCommand(call, "/reg/stats")
    /\ raised = "none"
    /\ "stats" \in DOMAIN registeredPaths
    /\ before.notificationAction = "ignore"
    /\ notificationAction = "ignore"

\* C16: _responseClient leaves the table as it was, whatever the message.
C16_ResponseKeepsTable ==
    call.handler = "_responseClient"
    => registeredPaths = before.registeredPaths

\* C16 happens: a response without an Observe option carried the token of
\* stats, and stats is still in the table with that token.
C16_Witness ==
    /\ call.handler = "_responseClient"
    /\ call.message.observe = <<>>
    /\ "stats" \in DOMAIN before.registeredPaths
    /\ call.message.token = before.registeredPaths["stats"]
    /\ "stats" \in DOMAIN registeredPaths
    /\ registeredPaths["stats"] = call.message.token

\* C17: a deregister of a key k that is in the table leaves the table
\* without k whether or not its send succeeds; when the send fails no
\* message has left and the other entries are as they were.
C17_DeregisterDoesNotRollBack ==
    \A k \in Keys :
        ( /\ IsCommand(call, DeregisterPath(k))
          /\ k \in DOMAIN before.registeredPaths )
        => /\ raised \in { "none", "socket.error" }
           /\ k \notin DOMAIN registeredPaths
           /\ SameExcept(registeredPaths, before.registeredPaths, k)
           /\ raised = "socket.error" => sent = <<>>

\* C17 happens: the send of a deregister of stats failed, and stats is gone
\* from the table while core is still there.
C17_Witness ==
    /\ IsCommand(call, "/dereg/stats")
    /\ raised = "socket.error"
    /\ sent = <<>>
    /\ DOMAIN before.registeredPaths = { "stats", "core" }
    /\ DOMAIN registeredPaths = { "core" }

\* C18: every token in the table has between 1 and 8 bytes, and a register
\* without explicit token text stores a token of exactly 2 bytes.
C18_TokenLengths ==
    /\ \A k \in DOMAIN registeredPaths :
          Len(registeredPaths[k]) >= 1 /\ Len(registeredPaths[k]) <= 8
    /\ \A k \in Keys :
          ( /\ IsCommand(call, RegisterPath(k))
            /\ raised = "none"
            /\ ~Truthy(call.pathQuery) )
          => Len(registeredPaths[k]) = 2

\* C19: an inbound CON message whose token is in the table is answered,
\* under policy ack, by exactly one ACK with its message ID however many
\* identical messages were handled just before it, so a run of n identical
\* such messages has produced n ACKs; and a CON message whose token is not
\* in the table at the time it is handled gets nothing.
C19_DuplicatesHandledIndependently ==
    /\ ( /\ IsInbound(call, "CON")
         /\ before.notificationAction = "None"
         /\ Live(before.registeredPaths, call.message.token) )
       => /\ Len(sent) = 1
          /\ IsEmptyResponse(sent[1], "ACK", call.message.messageId)
          /\ repeated[2] = repeated[1]
    /\ ( /\ IsInbound(call, "CON")
         /\ ~Live(before.registeredPaths, call.message.token) )
       => /\ sent = <<>>
          /\ repeated[2] = 0

\* C19 happens: the third of three identical CON notifications with a
\* token of the table was handled, and three ACKs have been sent.
C19_Witness ==
    /\ IsInbound(call, "CON")
    /\ before.notificationAction = "None"
    /\ Live(before.registeredPaths, call.message.token)
    /\ repeated = << 3, 3 >>
    /\ Len(sent) = 1
    /\ sent[1].messageType = "ACK"

\* C20: close sends no message, in particular no deregister request for a
\* key of the table, and leaves the table as it was.
C20_CloseSendsNothing ==
    call.handler = "close"
    => /\ sent = <<>>
       /\ raised = "none"
       /\ registeredPaths = before.registeredPaths

\* C20 happens: close was called with all three keys in the table.
C20_Witness ==
    /\ call.handler = "close"
    /\ closed
    /\ DOMAIN before.registeredPaths = Keys
    /\ DOMAIN registeredPaths = Keys
    /\ sent = <<>>

\* C21: key k is in the table with token T exactly when the last request
\* sent for k was a registration (Observe=0) carrying T, and k is absent
\* exactly when no request was sent for k or the last one was a
\* deregistration (Observe=1).
C21_TableFollowsLastRequest ==
    \A k \in Keys :
        /\ k \in DOMAIN registeredPaths <=> requested[k].observe = << 0 >>
        /\ k \in DOMAIN registeredPaths
             => requested[k].token = registeredPaths[k]
        /\ k \notin DOMAIN registeredPaths
             <=> ( requested[k] = NoRequest \/ requested[k].observe = << 1 >> )

\* C21 happens: stats was registered again with another token, core was
\* deregistered, and no request was ever sent for stats2.
C21_Witness ==
    /\ IsCommand(call, "/reg/stats")
    /\ raised = "none"
    /\ "stats" \in DOMAIN before.registeredPaths
    /\ before.registeredPaths["stats"] # registeredPaths["stats"]
    /\ requested["stats"] = [ observe |-> << 0 >>,
                              token |-> registeredPaths["stats"] ]
    /\ "core" \notin DOMAIN registeredPaths
    /\ requested["core"].observe = << 1 >>
    /\ requested["stats2"] = NoRequest

\* Every entry of the table paths has had its request sent, and every key
\* the table lacks has had none or a deregistration: no update of the table
\* is waiting for its request.
Settled(paths, req) ==
    \A k \in Keys :
        IF k \in DOMAIN paths
        THEN req[k] = [ observe |-> << 0 >>, token |-> paths[k] ]
        ELSE req[k].observe \in { <<>>, << 1 >> }

C24_UnmappedKeyCommandPassesThrough ==
    IsCommand(call, "/reg/other")
    => /\ raised = "none"
       /\ "other" \in DOMAIN registeredPaths
       /\ Len(sent) = 1
       /\ IsObserveRequest(sent[1], 0)
       /\ sent[1].uriPath = <<>>

\* C24 as amended: the command /reg/<key> for a key outside the mapping is
\* not recognized, so it stores nothing and sends nothing; the register
\* operation itself, were it called with such a key on the current table,
\* would store a token for the key and send an Observe=0 request with no
\* path segments.
C24_UnmappedKeyCommandIsNoOp ==
    /\ IsCommand(call, "/reg/other")
       => /\ raised = "none"
          /\ sent = <<>>
          /\ registeredPaths = before.registeredPaths
    /\ "other" \notin DOMAIN registeredPaths
    /\ LET q == Query(registeredPaths, "reg", "other", NoQuery, 4660,
                      << 5, 166 >>)
       IN  /\ q.raised = "none"
           /\ DOMAIN q.paths = DOMAIN registeredPaths \cup { "other" }
           /\ q.paths["other"] = << 5, 166 >>
           /\ Len(q.sent) = 1
           /\ IsObserveRequest(q.sent[1], 0)
           /\ q.sent[1].token = << 5, 166 >>
           /\ q.sent[1].uriPath = <<>>

\* C24 happens: /reg/other was posted while stats was registered, and the
\* table still has stats alone.
C24_Witness ==
    /\ IsCommand(call, "/reg/other")
    /\ DOMAIN before.registeredPaths = { "stats" }
    /\ DOMAIN registeredPaths = { "stats" }
    /\ sent = <<>>

\* C25: two distinct keys of the table never hold equal tokens.
C25_TokensUnique ==
    \A k1 \in DOMAIN registeredPaths, k2 \in DOMAIN registeredPaths :
        k1 # k2 => registeredPaths[k1] # registeredPaths[k2]

\* C26: every message sent that is not a request is an empty ACK or RST
\* with a zero-length token, sent by _responseClient with the message ID of
\* the inbound message it handled, whose token was in the table then.
C26_ResponsesAreEmptyAnswers ==
    \A i \in 1 .. Len(sent) :
        sent[i].codeClass # "Request"
        => /\ call.handler = "_responseClient"
           /\ sent[i].messageType \in { "ACK", "RST" }
           /\ IsEmptyResponse(sent[i], sent[i].messageType,
                              call.message.messageId)
           /\ Live(before.registeredPaths, call.message.token)

\* C26 happens: an RST with message ID 1 answered a NON notification whose
\* token is the one-byte token of an entry.
C26_Witness ==
    /\ IsInbound(call, "NON")
    /\ call.message.messageId = 1
    /\ call.message.token = << 5 >>
    /\ Live(before.registeredPaths, << 5 >>)
    /\ Len(sent) = 1
    /\ sent[1].codeClass = "Empty"
    /\ sent[1].messageType = "RST"
    /\ sent[1].messageId = 1

\* The URI path of each resource key.
MappedUriPath(k) ==
    CASE k = "core" -> << ".well-known", "core" >>
      [] k = "stats" -> << "cli", "stats" >>
      [] k = "stats2" -> << "cli", "stats2" >>

\* C27: every request sent is a NON GET with exactly one Observe option,
\* sent by a register command with value 0 or by a deregister command with
\* value 1, to the URI path of the command's key.
C27_RequestShape ==
    \A i \in 1 .. Len(sent) :
        sent[i].codeClass = "Request"
        => /\ sent[i].messageType = "NON"
           /\ sent[i].codeDetail = "GET"
           /\ Len(sent[i].observe) = 1
           /\ \E k \in Keys :
                 /\ sent[i].uriPath = MappedUriPath(k)
                 /\ \/ /\ IsCommand(call, RegisterPath(k))
                       /\ sent[i].observe = << 0 >>
                    \/ /\ IsCommand(call, DeregisterPath(k))
                       /\ sent[i].observe = << 1 >>

\* C27 happens: a deregister of stats2 went to /cli/stats2 with Observe=1.
C27_Witness ==
    /\ IsCommand(call, "/dereg/stats2")
    /\ Len(sent) = 1
    /\ sent[1].codeClass = "Request"
    /\ sent[1].uriPath = << "cli", "stats2" >>
    /\ sent[1].observe = << 1 >>

\* C28: in every request sent, the declared token length is the length of
\* the token the request carries.
C28_DeclaredTokenLength ==
    \A i \in 1 .. Len(sent) :
        sent[i].codeClass = "Request"
        => sent[i].tokenLength = Len(sent[i].token)

\* C29: a register command that fails while it decodes its token text
\* leaves the table as it was and sends nothing.
C29_FailedDecodeChangesNothing ==
    \A k \in Keys :
        ( IsCommand(call, RegisterPath(k)) /\ raised = "ValueError" )
        => /\ registeredPaths = before.registeredPaths
           /\ notificationAction = before.notificationAction
           /\ sent = <<>>

\* C29 happens: /reg/stats?0g failed while stats was registered, and stats
\* keeps its token; /reg/core?0g would have created no entry either.
C29_Witness ==
    /\ IsCommand(call, "/reg/stats")
    /\ call.pathQuery = << "0", "g" >>
    /\ raised = "ValueError"
    /\ "stats" \in DOMAIN before.registeredPaths
    /\ "stats" \in DOMAIN registeredPaths
    /\ registeredPaths["stats"] = before.registeredPaths["stats"]
    /\ "core" \notin DOMAIN registeredPaths
    /\ sent = <<>>

\* C30: under policy reset_non an inbound CON message whose token is in the
\* table is answered by no message.
C30_ResetNonIgnoresCon ==
    ( /\ IsInbound(call, "CON")
      /\ before.notificationAction = "reset_non"
      /\ Live(before.registeredPaths, call.message.token) )
    => sent = <<>>

\* C30 happens: a CON notification with the token of stats was handled
\* under reset_non.
C30_Witness ==
    /\ IsInbound(call, "CON")
    /\ before.notificationAction = "reset_non"
    /\ "stats" \in DOMAIN before.registeredPaths
    /\ call.message.token = before.registeredPaths["stats"]
    /\ call.message.observe = << 7 >>
    /\ sent = <<>>

\* C31: a policy command leaves the policy set; a policy that is set stays
\* set through every later handler invocation, and no handler that starts
\* with the policy set sends an ACK.
C31_PolicyNeverBackToAck ==
    [][ /\ ( call'.handler = "_postServerResource" /\ call'.path \in PolicyPaths )
           => notificationAction' # "None"
        /\ notificationAction # "None"
           => /\ notificationAction' # "None"
              /\ \A i \in 1 .. Len(sent') : sent'[i].messageType # "ACK" ]_vars

\* C31 happens: with the policy set earlier and a register since, a CON
\* notification with the token of stats got an RST, not an ACK.
C31_Witness ==
    /\ IsInbound(call, "CON")
    /\ before.notificationAction = "reset"
    /\ notificationAction = "reset"
    /\ "stats" \in DOMAIN before.registeredPaths
    /\ call.message.token = before.registeredPaths["stats"]
    /\ Len(sent) = 1
    /\ sent[1].messageType = "RST"

C33_OtherEntriesUntouched ==
    \A k \in Keys :
        ( IsCommand(call, RegisterPath(k)) \/ IsCommand(call, DeregisterPath(k)) )
        => \A j \in Keys \ { k } :
              /\ j \in DOMAIN registeredPaths <=> j \in DOMAIN before.registeredPaths
              /\ j \in DOMAIN registeredPaths
                   => registeredPaths[j] = before.registeredPaths[j]

\* C33 happens: core was deregistered while stats held the same token and
\* stats2 was absent; stats keeps its token and stats2 is still absent.
C33_Witness ==
    /\ IsCommand(call, "/dereg/core")
    /\ raised = "none"
    /\ DOMAIN before.registeredPaths = { "stats", "core" }
    /\ before.registeredPaths["stats"] = before.registeredPaths["core"]
    /\ DOMAIN registeredPaths = { "stats" }
    /\ registeredPaths["stats"] = before.registeredPaths["stats"]

\* The last test server invocation was the handler h for the path p.
IsTesterCall(h, p) == testerCall.handler = h /\ testerCall.path = p

\* text is the decimal text of the count n.
IsCountText(text, n) == n \in 0 .. 9 /\ text = << DecimalDigits[n + 1] >>

====
